---- MODULE Spec2Model ----
(***************************************************************************)
(* A model of the conformal-RCA inference script and its utilities:        *)
(*   scripts/run_inference.py    main()                                    *)
(*   src/utils/data_transforms.py  Scale, ToTensor, OneHot, HUScale,       *)
(*                                 compute_ece_for_segmentation,           *)
(*                                 unzip_segs, extract_path                *)
(*   src/utils/io.py             NumpyArrayEncoder, to_json, read_json     *)
(* Five specifications share the module; each one drives one group of      *)
(* variables and leaves the other groups at their idle values:             *)
(*   SpecECE    compute_ece_for_segmentation on bounded inputs             *)
(*   SpecMain   one run of main()                                          *)
(*   SpecJson   to_json followed by read_json                              *)
(*   SpecXform  the sample transforms applied to one shared sample         *)
(*   SpecZip    calls of extract_path and unzip_segs on one archive         *)
(***************************************************************************)
EXTENDS Integers, Sequences, FiniteSets, TLC

VARIABLES
    \* ---- compute_ece_for_segmentation
    prob_maps,      \* sequence of confidences, each k standing for k / Grid
    true_labels,    \* sequence of label values, each k standing for k / Grid
    n_bins,         \* the n_bins argument
    perm,           \* the order in which the pairs are handed to the function
    ece,            \* <<e>> once a call returned e (the ECE times Grid * N), else << >>
    \* ---- to_json / read_json
    data,           \* the Python value handed to to_json
    file,           \* the file at file_path: [exists, text], text a token sequence
    io_error,       \* the exception the last call raised, or NoError
    loaded,         \* <<v>> once read_json returned v, else << >>
    \* ---- main() of run_inference.py
    argv,           \* the command line: [dataset, classifier, emb_model, config]
    pc,             \* where main() is
    error,          \* the exception that ended main(), or NoError
    emb_model,      \* args.emb_model
    n_classes,      \* n_classes
    transforms,     \* transforms_list
    constructed,    \* the dataset splits constructed so far, in order
    d_test,         \* the test split: a sequence of sample names
    d_cal,          \* the calibration split: a sequence of sample names
    rca_args,       \* << >> until built, then <<the keyword arguments of RCA(...)>>
    rca_clf,        \* << >> until RCA(...) returned, then <<the evaluator>>
    records,        \* the records of the run_evaluation call in progress
    preds_test,     \* << >> until run_evaluation returned, then <<its list>>
    preds_cal,      \* likewise for the calibration split
    files,          \* the two output files, by suffix
    \* ---- the sample transforms
    sample,         \* the sample dictionary the transforms are called with
    loaded_sample,  \* its contents as the dataset loader produced them
    applied,        \* the transforms called on it so far, in order
    divided_by_zero, \* whether a transform divided by zero
    \* ---- extract_path / unzip_segs
    archive,        \* the members of the ZIP file at zip_path, or BadZip
    fs,             \* the entries under tempfile.gettempdir(): [path, dir]
    ret,            \* the last call: its destination and how it ended
    n_calls         \* the calls made so far

varsECE == <<prob_maps, true_labels, n_bins, perm, ece>>
varsJson == <<data, file, io_error, loaded>>
varsXform == <<sample, loaded_sample, applied, divided_by_zero>>
varsZip == <<archive, fs, ret, n_calls>>
varsMain == <<argv, pc, error, emb_model, n_classes, transforms, constructed, d_test, d_cal,
              rca_args, rca_clf, records, preds_test, preds_cal, files>>


\* ------------------------------------------------------------------ bounds
MaxPixels == 2      \* elements in prob_maps / true_labels
MaxBins == 2        \* n_bins ranges over 1..MaxBins
MaxRecords == 2     \* records in the list handed to to_json
MaxSamples == 2     \* samples in a dataset split
ImagePixels == 2    \* pixels of the sample's image and of its mask
\* Confidences are the rationals k / Grid, 0 <= k <= Grid.  Grid is a multiple
\* of every n_bins <= MaxBins that divides 2 * MaxBins, so interior bin
\* boundaries are themselves representable confidences.
Grid == 2 * MaxBins

\* ------------------------------------------------------------------ helpers
Abs(x) == IF x < 0 THEN -x ELSE x

RECURSIVE SumSeq(_)
SumSeq(s) == IF s = <<>> THEN 0 ELSE Head(s) + SumSeq(Tail(s))

Swap(s, i, j) == [k \in 1..Len(s) |-> IF k = i THEN s[j] ELSE IF k = j THEN s[i] ELSE s[k]]

NoError == "NoError"
NoFile == [exists |-> FALSE, text |-> <<>>]

IdleJson ==
    /\ data = <<"list", <<>> >>
    /\ file = NoFile
    /\ io_error = NoError
    /\ loaded = <<>>

\* an array: its kind, the values data[i] / den, the number of channels, and
\* whether every value is NaN
Array(kind, den, xs) == [kind |-> kind, den |-> den, data |-> xs, channels |-> 1, nan |-> FALSE]

IdleXform ==
    /\ sample = [image |-> Array("ndarray", 1, <<>>), mask |-> Array("ndarray", 1, <<>>)]
    /\ loaded_sample = sample
    /\ applied = <<>>
    /\ divided_by_zero = FALSE

PyNone == "py:None"     \* Python's None, as against the string 'None'
Absent == "py:absent"   \* an option not given on the command line

IdleMain ==
    /\ argv = [dataset |-> "hc18", classifier |-> "atlas", emb_model |-> Absent,
               config |-> "sam2_hiera_t"]
    /\ pc = "idle"
    /\ error = NoError
    /\ emb_model = PyNone
    /\ n_classes = 0
    /\ transforms = <<>>
    /\ constructed = <<>>
    /\ d_test = <<>>
    /\ d_cal = <<>>
    /\ rca_args = <<>>
    /\ rca_clf = <<>>
    /\ records = <<>>
    /\ preds_test = <<>>
    /\ preds_cal = <<>>
    /\ files = [f \in {"_test.json", "_cal.json"} |-> NoFile]

(***************************************************************************)
(* compute_ece_for_segmentation (data_transforms.py 126-157).              *)
(* bin_boundaries = linspace(0, 1, n_bins + 1): boundary b is b / n.  All  *)
(* comparisons are made on cross-multiplied integers, so they are exact:   *)
(* k/Grid > b/n  <=>  k*n > b*Grid.                                        *)
(***************************************************************************)
bin_lower_lt(k, b, n) == k * n > (b - 1) * Grid
bin_upper_ge(k, b, n) == k * n <= b * Grid

\* a plausible slip: the lower comparison written >= instead of >
in_bin_closed(k, b, n) == k * n >= (b - 1) * Grid /\ bin_upper_ge(k, b, n)

\* line 145: in_bin = (prob_maps > bin_lower) & (prob_maps <= bin_upper), for bin b in 1..n
in_bin(k, b, n) == bin_lower_lt(k, b, n) /\ bin_upper_ge(k, b, n)

\* the mask of line 145 over the whole input, as a 0/1 sequence
InBinMask(pm, b, n) == [i \in 1..Len(pm) |-> IF in_bin(pm[i], b, n) THEN 1 ELSE 0]

\* in_bin.sum()
BinCount(pm, b, n) == SumSeq(InBinMask(pm, b, n))

\* a plausible slip: agreement counted against the background class
AccurateCountWrongClass(pm, tl, b, n) ==
    SumSeq([i \in 1..Len(pm) |-> IF in_bin(pm[i], b, n) /\ tl[i] = 0 THEN 1 ELSE 0])

\* line 150 numerator: (in_bin & (true_labels == 1)).float().sum(); label 1 is Grid / Grid
AccurateCount(pm, tl, b, n) ==
    SumSeq([i \in 1..Len(pm) |-> IF in_bin(pm[i], b, n) /\ tl[i] = Grid THEN 1 ELSE 0])

\* a plausible slip: prob_maps[:in_bin.sum()] instead of prob_maps[in_bin]
ConfidenceSumPrefix(pm, b, n) == SumSeq(SubSeq(pm, 1, BinCount(pm, b, n)))

\* line 153 numerator: prob_maps[in_bin].sum(), in units of 1 / Grid
ConfidenceSum(pm, b, n) ==
    SumSeq([i \in 1..Len(pm) |-> IF in_bin(pm[i], b, n) THEN pm[i] ELSE 0])

\* lines 146-155 for one bin, times Grid * N:
\*   |conf/(Grid*cnt) - acc/cnt| * cnt/N  =  |conf - Grid*acc| / (Grid*N)
\* prop_in_bin > 0 is cnt > 0 (for an empty input the mean is NaN and NaN > 0 is false).
BinTerm(pm, tl, b, n) ==
    IF BinCount(pm, b, n) > 0
    THEN Abs(ConfidenceSum(pm, b, n) - Grid * AccurateCount(pm, tl, b, n))
    ELSE 0

\* lines 141-157: ece = 0.0; for each bin: ece += term; return ece
RECURSIVE EceLoop(_, _, _, _)
EceLoop(pm, tl, b, n) ==
    IF b > n THEN 0 ELSE BinTerm(pm, tl, b, n) + EceLoop(pm, tl, b + 1, n)

compute_ece_for_segmentation(pm, tl, n) == EceLoop(pm, tl, 1, n)

\* the input in the order perm: element i of the call is pair perm[i]
Reordered(s, p) == [i \in 1..Len(s) |-> s[p[i]]]

Confidences == 0..Grid
\* label values: background 0, foreground 1, and one value that is no class
\* label (a real-valued score of 1/2)
LabelValues == {0, Grid \div 2, Grid}

\* the last call of extract_path / unzip_segs, before any call was made
NoCall == [dest |-> "", outcome |-> "none", found |-> FALSE, extracted |-> FALSE,
           changed |-> FALSE]

IdleZip ==
    /\ archive = [ok |-> TRUE, members |-> {}]
    /\ fs = {}
    /\ ret = NoCall
    /\ n_calls = 0

SeqsUpTo(S, m) == UNION {[1..l -> S] : l \in 0..m}

IdleECE ==
    /\ prob_maps = <<>>
    /\ true_labels = <<>>
    /\ n_bins = 1
    /\ perm = <<>>
    /\ ece = <<>>

InitECE ==
    /\ IdleZip
    /\ IdleJson
    /\ IdleMain
    /\ IdleXform
    /\ prob_maps \in SeqsUpTo(Confidences, MaxPixels)
    /\ true_labels \in [1..Len(prob_maps) -> LabelValues]
    /\ n_bins \in 1..MaxBins
    /\ perm = [i \in 1..Len(prob_maps) |-> i]
    /\ ece = <<>>

\* the caller reorders the (predicted, real) pairs: both tensors alike
Reorder(i) ==
    /\ i \in 1..(Len(perm) - 1)
    /\ perm' = Swap(perm, i, i + 1)
    /\ ece' = <<>>
    /\ UNCHANGED <<prob_maps, true_labels, n_bins>>
    /\ UNCHANGED <<varsJson, varsMain, varsXform, varsZip>>

ComputeECE ==
    /\ ece = <<>>
    /\ ece' = <<compute_ece_for_segmentation(Reordered(prob_maps, perm),
                                             Reordered(true_labels, perm), n_bins)>>
    /\ UNCHANGED <<prob_maps, true_labels, n_bins, perm>>
    /\ UNCHANGED <<varsJson, varsMain, varsXform, varsZip>>

vars == <<varsECE, varsJson, varsMain, varsXform, varsZip>>

NextECE ==
    \/ ComputeECE
    \/ \E i \in 1..MaxPixels : Reorder(i)

SpecECE == InitECE /\ [][NextECE]_vars

(***************************************************************************)
(* io.py 13-32: NumpyArrayEncoder, to_json, read_json.                     *)
(* A Python value is a tagged tuple:                                       *)
(*   <<"num", k>>  <<"nan">>  <<"str", s>>  <<"list", items>>              *)
(*   <<"dict", pairs>>   pairs a sequence of <<key string, value>>         *)
(*   <<"ndarray", xs>>   a one-dimensional numpy array of numbers          *)
(*   <<"tensor">>        an object json has no encoding for                *)
(* JSON text is a sequence of tokens; indent=4 makes json.dumps put        *)
(* whitespace (newline and indentation) before every item and before the   *)
(* closing bracket of a non-empty container.                               *)
(***************************************************************************)
TypeError == <<"TypeError">>
WS == <<"ws">>

\* a plausible slip: the array encoded through str(obj)
default_as_str(obj) == IF obj[1] = "ndarray" THEN <<"str", "array">> ELSE TypeError

\* NumpyArrayEncoder.default: obj.tolist() for an array, else JSONEncoder.default raises
NumpyArrayEncoder_default(obj) ==
    IF obj[1] = "ndarray"
    THEN <<"list", [i \in 1..Len(obj[2]) |-> <<"num", obj[2][i]>>]>>
    ELSE TypeError

IsNative(v) == v[1] \in {"num", "nan", "str", "list", "dict"}

RECURSIVE Serializable(_)
Serializable(v) ==
    CASE v[1] = "list" -> \A i \in 1..Len(v[2]) : Serializable(v[2][i])
      [] v[1] = "dict" -> \A i \in 1..Len(v[2]) : Serializable(v[2][i][2])
      [] IsNative(v) -> TRUE
      [] OTHER -> /\ NumpyArrayEncoder_default(v) # TypeError
                  /\ Serializable(NumpyArrayEncoder_default(v))

\* json.dumps(v, cls=NumpyArrayEncoder, indent=4) for a serializable v
RECURSIVE Encode(_)
RECURSIVE EncodeItems(_, _)
RECURSIVE EncodeMembers(_, _)
Encode(v) ==
    CASE v[1] = "num" -> <<v>>
      [] v[1] = "nan" -> << <<"NaN">> >>
      [] v[1] = "str" -> <<v>>
      [] v[1] = "list" ->
            IF v[2] = <<>> THEN << <<"[">>, <<"]">> >>
            ELSE << <<"[">> >> \o EncodeItems(v[2], 1) \o << WS, <<"]">> >>
      [] v[1] = "dict" ->
            IF v[2] = <<>> THEN << <<"{">>, <<"}">> >>
            ELSE << <<"{">> >> \o EncodeMembers(v[2], 1) \o << WS, <<"}">> >>
      [] OTHER -> Encode(NumpyArrayEncoder_default(v))
EncodeItems(items, i) ==
    IF i > Len(items) THEN <<>>
    ELSE (IF i > 1 THEN << <<",">> >> ELSE <<>>) \o <<WS>> \o Encode(items[i])
         \o EncodeItems(items, i + 1)
EncodeMembers(pairs, i) ==
    IF i > Len(pairs) THEN <<>>
    ELSE (IF i > 1 THEN << <<",">> >> ELSE <<>>) \o <<WS>>
         \o << <<"str", pairs[i][1]>>, <<":">> >> \o Encode(pairs[i][2])
         \o EncodeMembers(pairs, i + 1)

json_dumps(v) == IF Serializable(v) THEN Encode(v) ELSE TypeError

\* what the environment does to open() and write(): lines 24-25
IoOutcomes == {"ok", "open_fails", "write_fails"}

\* to_json(data, file_path) on the file f: the file afterwards and the exception raised
to_json(v, f, io) ==
    LET json_data == json_dumps(v) IN
    IF json_data = TypeError THEN [file |-> f, raised |-> "TypeError"]
    ELSE IF io = "open_fails" THEN [file |-> f, raised |-> "OSError"]
    ELSE IF io = "write_fails"
         THEN [file |-> [exists |-> TRUE, text |-> SubSeq(json_data, 1, Len(json_data) \div 2)],
               raised |-> "OSError"]
    ELSE [file |-> [exists |-> TRUE, text |-> json_data], raised |-> NoError]

\* json.load: a recursive-descent parse of the token sequence.  Each parser
\* returns [ok, val, next]; ok is FALSE for text that is not JSON.
Bad == [ok |-> FALSE, val |-> <<"nan">>, next |-> 0]
Tok(t, i) == IF i <= Len(t) THEN t[i] ELSE <<"eof">>

RECURSIVE SkipWs(_, _)
SkipWs(t, i) == IF Tok(t, i) = WS THEN SkipWs(t, i + 1) ELSE i

RECURSIVE ParseValue(_, _)
RECURSIVE ParseItems(_, _, _)
RECURSIVE ParseMembers(_, _, _)
ParseValue(t, i0) ==
    LET i == SkipWs(t, i0)
        k == Tok(t, i)[1]
    IN CASE k \in {"num", "str"} -> [ok |-> TRUE, val |-> t[i], next |-> i + 1]
         [] k = "NaN" -> [ok |-> TRUE, val |-> <<"nan">>, next |-> i + 1]
         [] k = "[" ->
              IF Tok(t, SkipWs(t, i + 1)) = <<"]">>
              THEN [ok |-> TRUE, val |-> <<"list", <<>> >>, next |-> SkipWs(t, i + 1) + 1]
              ELSE ParseItems(t, i + 1, <<>>)
         [] k = "{" ->
              IF Tok(t, SkipWs(t, i + 1)) = <<"}">>
              THEN [ok |-> TRUE, val |-> <<"dict", <<>> >>, next |-> SkipWs(t, i + 1) + 1]
              ELSE ParseMembers(t, i + 1, <<>>)
         [] OTHER -> Bad
ParseItems(t, i, acc) ==
    LET item == ParseValue(t, i) IN
    IF ~item.ok THEN Bad
    ELSE LET j == SkipWs(t, item.next)
             got == Append(acc, item.val)
         IN CASE Tok(t, j) = <<",">> -> ParseItems(t, j + 1, got)
              [] Tok(t, j) = <<"]">> -> [ok |-> TRUE, val |-> <<"list", got>>, next |-> j + 1]
              [] OTHER -> Bad
ParseMembers(t, i0, acc) ==
    LET i == SkipWs(t, i0) IN
    IF Tok(t, i)[1] # "str" \/ Tok(t, SkipWs(t, i + 1)) # <<":">> THEN Bad
    ELSE LET item == ParseValue(t, SkipWs(t, i + 1) + 1) IN
         IF ~item.ok THEN Bad
         ELSE LET j == SkipWs(t, item.next)
                  got == Append(acc, <<t[i][2], item.val>>)
              IN CASE Tok(t, j) = <<",">> -> ParseMembers(t, j + 1, got)
                   [] Tok(t, j) = <<"}">> -> [ok |-> TRUE, val |-> <<"dict", got>>, next |-> j + 1]
                   [] OTHER -> Bad

\* json.load(file): the whole text must be one value
json_load(t) ==
    LET r == ParseValue(t, 1) IN
    IF r.ok /\ SkipWs(t, r.next) = Len(t) + 1 THEN r ELSE Bad

\* the values a metric takes in a record
MetricValues ==
    {<<"num", 1>>, <<"nan">>, <<"ndarray", <<1, 0>> >>, <<"tensor">>}

\* one evaluation record, with the keys process_results reads (io.py 42-44)
RecordOf(name, rca, real) ==
    <<"dict", << <<"name", <<"num", name>> >>,
                 <<"RCA score", <<"dict", << <<"Dice", rca>> >> >> >>,
                 <<"Real score", <<"dict", << <<"Dice", real>> >> >> >> >> >>

RecordLists ==
    UNION {{<<"list", [i \in 1..l |-> RecordOf(i, rca[i], real[i])]>> :
              rca \in [1..l -> MetricValues], real \in [1..l -> MetricValues]} :
           l \in 0..MaxRecords}

InitJson ==
    /\ IdleZip
    /\ IdleECE
    /\ IdleMain
    /\ IdleXform
    /\ data \in RecordLists
    /\ file = NoFile
    /\ io_error = NoError
    /\ loaded = <<>>

ToJson ==
    /\ ~file.exists
    /\ io_error = NoError
    /\ \E io \in IoOutcomes :
          LET r == to_json(data, file, io) IN
          /\ file' = r.file
          /\ io_error' = r.raised
    /\ UNCHANGED <<data, loaded>>
    /\ UNCHANGED <<varsECE, varsMain, varsXform, varsZip>>

\* read_json(file_path), lines 27-32
ReadJson ==
    /\ loaded = <<>>
    /\ io_error = NoError
    /\ IF ~file.exists THEN io_error' = "FileNotFoundError" /\ loaded' = loaded
       ELSE LET r == json_load(file.text) IN
            IF r.ok THEN loaded' = <<r.val>> /\ io_error' = io_error
            ELSE loaded' = loaded /\ io_error' = "JSONDecodeError"
    /\ UNCHANGED <<data, file>>
    /\ UNCHANGED <<varsECE, varsMain, varsXform, varsZip>>

NextJson == ToJson \/ ReadJson

SpecJson == InitJson /\ [][NextJson]_vars

(***************************************************************************)
(* run_inference.py 23-114: main().                                        *)
(***************************************************************************)
\* line 37
datasets ==
    {"hc18", "psfhs", "scd", "jsrt", "ph2", "isic 2018", "3d-ircadb/liver", "nucls",
     "wbc/cv", "wbc/jtsc"}

\* the classifier names main() knows: lines 64, 66, 72, 74, 98
Classifiers == {"universeg", "sam2", "atlas"}

\* line 100: the keys of model_type_dict
model_type_dict ==
    [k \in {"sam2_hiera_t", "sam2_hiera_s", "sam2_hiera_b+", "sam2_hiera_l", "sam2.1_hiera_t"} |->
        CASE k = "sam2_hiera_t" -> "sam2/checkpoints/sam2_hiera_tiny.pt"
          [] k = "sam2_hiera_s" -> "sam2/checkpoints/sam2_hiera_small.pt"
          [] k = "sam2_hiera_b+" -> "sam2/checkpoints/sam2_hiera_base_plus.pt"
          [] k = "sam2_hiera_l" -> "sam2/checkpoints/sam2_hiera_large.pt"
          [] OTHER -> "sam2/checkpoints/sam2.1_hiera_tiny.pt"]

\* line 30: default of --n_test
n_test == 8

\* lines 43-47
default_emb_model(dataset) ==
    IF dataset = "jsrt" THEN "microsoft/rad-dino" ELSE "facebook/dinov2-base"

\* argparse for --emb_model (lines 31, 34, 50): the value given, else the default in force
parse_emb_model(a, default) == IF a.emb_model = Absent THEN default ELSE a.emb_model

\* a plausible slip: the second parse_args() (line 50) left out, so the default
\* set at line 49 never reaches args
args_emb_model_no_reparse(a) ==
    LET e == parse_emb_model(a, PyNone) IN IF e = "None" THEN PyNone ELSE e

\* lines 49-53: args.emb_model after set_defaults, the second parse and the 'None' test
args_emb_model(a) ==
    LET e == parse_emb_model(a, default_emb_model(a.dataset))
    IN IF e = "None" THEN PyNone ELSE e

\* lines 55-59
n_classes_of(dataset) ==
    IF dataset \in {"psfhs", "jsrt", "wbc/cv", "wbc/jtsc"} THEN 2 ELSE 1

\* lines 61-77; << >> stands for transforms = None
transforms_of(dataset, classifier) ==
    IF dataset = "jsrt"
    THEN <<"Rescale", "ToTensorSeg">>
         \o (IF classifier # "universeg" THEN <<"ToNumpy">> ELSE <<>>)
         \o (IF classifier # "atlas" THEN <<"OneHot">> ELSE <<>>)
    ELSE IF classifier = "universeg" THEN <<"ToTensor", "OneHot">>
    ELSE IF classifier = "sam2" THEN <<"OneHot">>
    ELSE <<>>

Fail(exc) == pc' = "failed" /\ error' = exc

\* lines 24-77: parse the command line, check the dataset name, derive the settings
Startup ==
    /\ pc = "start"
    /\ IF argv.dataset \notin datasets
       THEN /\ Fail("ValueError")
            /\ UNCHANGED <<emb_model, n_classes, transforms>>
       ELSE /\ emb_model' = args_emb_model(argv)
            /\ n_classes' = n_classes_of(argv.dataset)
            /\ transforms' = transforms_of(argv.dataset, argv.classifier)
            /\ pc' = "load"
            /\ error' = error
    /\ UNCHANGED <<argv, constructed, d_test, d_cal, rca_args, rca_clf, records,
                   preds_test, preds_cal, files>>
    /\ UNCHANGED <<varsECE, varsJson, varsXform, varsZip>>

Splits == <<"Train", "Test", "Calibration">>

\* the names a loader gives the n samples of a split
SampleNames(split, n) == [i \in 1..n |-> IF split = "Calibration" THEN 100 + i ELSE i]

\* lines 83-85: one Seg2D_Dataset(...) construction; the loader may raise
Seg2D_Dataset ==
    /\ pc = "load"
    /\ argv.dataset # "jsrt"
    /\ LET split == Splits[Len(constructed) + 1] IN
       \/ /\ Fail("FileNotFoundError")
          /\ UNCHANGED <<constructed, d_test, d_cal>>
       \/ \E n \in 0..MaxSamples :
            /\ constructed' = Append(constructed, split)
            /\ d_test' = IF split = "Test" THEN SampleNames(split, n) ELSE d_test
            /\ d_cal' = IF split = "Calibration" THEN SampleNames(split, n) ELSE d_cal
            /\ pc' = IF split = "Calibration" THEN "rca_args" ELSE pc
            /\ error' = error
    /\ UNCHANGED <<argv, emb_model, n_classes, transforms, rca_args, rca_clf, records,
                   preds_test, preds_cal, files>>
    /\ UNCHANGED <<varsECE, varsJson, varsXform, varsZip>>

\* line 80: chestxray.get_jsrt_datasets(transforms) returns the three splits
get_jsrt_datasets ==
    /\ pc = "load"
    /\ argv.dataset = "jsrt"
    /\ \/ /\ Fail("FileNotFoundError")
          /\ UNCHANGED <<constructed, d_test, d_cal>>
       \/ \E nt \in 0..MaxSamples, nc \in 0..MaxSamples :
            /\ constructed' = Splits
            /\ d_test' = SampleNames("Test", nt)
            /\ d_cal' = SampleNames("Calibration", nc)
            /\ pc' = "rca_args"
            /\ error' = error
    /\ UNCHANGED <<argv, emb_model, n_classes, transforms, rca_args, rca_clf, records,
                   preds_test, preds_cal, files>>
    /\ UNCHANGED <<varsECE, varsJson, varsXform, varsZip>>

\* lines 91-106: the keyword arguments of RCA(...)
BuildRcaArgs ==
    /\ pc = "rca_args"
    /\ LET base == [n_test |-> n_test, n_classes |-> n_classes, emb_model |-> emb_model,
                    config |-> PyNone, checkpoint |-> PyNone]
       IN IF argv.classifier # "sam2"
          THEN rca_args' = <<base>> /\ pc' = "construct" /\ error' = error
          ELSE IF argv.config \notin DOMAIN model_type_dict
          THEN Fail("KeyError") /\ rca_args' = rca_args
          ELSE /\ rca_args' = <<[base EXCEPT !.config = argv.config,
                                             !.checkpoint = model_type_dict[argv.config]]>>
               /\ pc' = "construct"
               /\ error' = error
    /\ UNCHANGED <<argv, emb_model, n_classes, transforms, constructed, d_test, d_cal,
                   rca_clf, records, preds_test, preds_cal, files>>
    /\ UNCHANGED <<varsECE, varsJson, varsXform, varsZip>>

\* line 108: RCA(model=args.classifier, **rca_args).  The constructor rejects a
\* classifier it does not know (UnrecognizedClassifier) and may fail to load a model.
RCA ==
    /\ pc = "construct"
    /\ \/ /\ argv.classifier \notin Classifiers
          /\ Fail("UnrecognizedClassifier")
          /\ rca_clf' = rca_clf
       \/ /\ argv.classifier \in Classifiers
          /\ \/ Fail("ModelLoadError") /\ rca_clf' = rca_clf
             \/ /\ rca_clf' = <<[model |-> argv.classifier, args |-> rca_args[1]]>>
                /\ pc' = "eval_test"
                /\ error' = error
    /\ UNCHANGED <<argv, emb_model, n_classes, transforms, constructed, d_test, d_cal,
                   rca_args, records, preds_test, preds_cal, files>>
    /\ UNCHANGED <<varsECE, varsJson, varsXform, varsZip>>

\* line 110: the test set handed to the first run_evaluation call
TestSplit == d_test
\* a plausible slip: the second call made with the test split again
CalSplitMutant == d_test
\* line 113: the test set handed to the second run_evaluation call
CalSplit == d_cal

EvalSet == IF pc = "eval_test" THEN TestSplit ELSE CalSplit

\* the record of a sample that failed: its name and an error marker
FailedRecord(name) ==
    <<"dict", << <<"name", <<"num", name>> >>, <<"error", <<"str", "failed">> >> >> >>

SampleOutcomes == {"Done", "Failed"}

\* run_evaluation, one sample: Start -> Retrieved -> Segmented -> Scored -> Done,
\* or Failed from any of them; either way one record is emitted
EvalSample ==
    /\ pc \in {"eval_test", "eval_cal"}
    /\ Len(records) < Len(EvalSet)
    /\ LET name == EvalSet[Len(records) + 1] IN
       \E outcome \in SampleOutcomes :
          records' = Append(records,
                            IF outcome = "Done"
                            THEN RecordOf(name, <<"num", 1>>, <<"num", 1>>)
                            ELSE FailedRecord(name))
    /\ UNCHANGED <<argv, pc, error, emb_model, n_classes, transforms, constructed, d_test,
                   d_cal, rca_args, rca_clf, preds_test, preds_cal, files>>
    /\ UNCHANGED <<varsECE, varsJson, varsXform, varsZip>>

\* run_evaluation returns the records (lines 110, 113)
EvalReturn ==
    /\ pc \in {"eval_test", "eval_cal"}
    /\ Len(records) = Len(EvalSet)
    /\ IF pc = "eval_test"
       THEN preds_test' = << <<"list", records>> >> /\ preds_cal' = preds_cal /\ pc' = "save_test"
       ELSE preds_cal' = << <<"list", records>> >> /\ preds_test' = preds_test /\ pc' = "save_cal"
    /\ records' = <<>>
    /\ UNCHANGED <<argv, error, emb_model, n_classes, transforms, constructed, d_test,
                   d_cal, rca_args, rca_clf, files>>
    /\ UNCHANGED <<varsECE, varsJson, varsXform, varsZip>>

\* run_evaluation aborts on an unrecoverable error (the reference set failed to build)
EvalAbort ==
    /\ pc \in {"eval_test", "eval_cal"}
    /\ records = <<>>
    /\ Fail("ReferenceSetFailure")
    /\ UNCHANGED <<argv, emb_model, n_classes, transforms, constructed, d_test,
                   d_cal, rca_args, rca_clf, records, preds_test, preds_cal, files>>
    /\ UNCHANGED <<varsECE, varsJson, varsXform, varsZip>>

\* lines 111 and 114: to_json(preds, args.output_file + suffix)
SavePreds ==
    /\ pc \in {"save_test", "save_cal"}
    /\ LET suffix == IF pc = "save_test" THEN "_test.json" ELSE "_cal.json"
           preds == IF pc = "save_test" THEN preds_test[1] ELSE preds_cal[1]
       IN \E io \in IoOutcomes :
            LET r == to_json(preds, files[suffix], io) IN
            /\ files' = [files EXCEPT ![suffix] = r.file]
            /\ IF r.raised # NoError THEN Fail(r.raised)
               ELSE /\ pc' = IF pc = "save_test" THEN "eval_cal" ELSE "done"
                    /\ error' = error
    /\ UNCHANGED <<argv, emb_model, n_classes, transforms, constructed, d_test,
                   d_cal, rca_args, rca_clf, records, preds_test, preds_cal>>
    /\ UNCHANGED <<varsECE, varsJson, varsXform, varsZip>>

\* the command lines tried; --config is read for sam2 only (line 98), so it is
\* left at its default (line 32) for the other classifiers
ArgvSet ==
    {a \in [dataset : datasets \cup {"brats"},
            classifier : Classifiers \cup {"unet"},
            emb_model : {Absent, "None", "my/encoder"},
            config : {"sam2_hiera_t", "sam2_hiera_xl"}] :
        a.classifier # "sam2" => a.config = "sam2_hiera_t"}

InitMain ==
    /\ IdleZip
    /\ IdleECE
    /\ IdleJson
    /\ IdleXform
    /\ argv \in ArgvSet
    /\ pc = "start"
    /\ error = NoError
    /\ emb_model = PyNone
    /\ n_classes = 0
    /\ transforms = <<>>
    /\ constructed = <<>>
    /\ d_test = <<>>
    /\ d_cal = <<>>
    /\ rca_args = <<>>
    /\ rca_clf = <<>>
    /\ records = <<>>
    /\ preds_test = <<>>
    /\ preds_cal = <<>>
    /\ files = [f \in {"_test.json", "_cal.json"} |-> NoFile]

NextMain ==
    \/ Startup
    \/ Seg2D_Dataset
    \/ get_jsrt_datasets
    \/ BuildRcaArgs
    \/ RCA
    \/ EvalSample
    \/ EvalReturn
    \/ EvalAbort
    \/ SavePreds

SpecMain == InitMain /\ [][NextMain]_vars

(***************************************************************************)
(* data_transforms.py 44-123: Scale, ToTensor, OneHot, HUScale.            *)
(* Each __call__ receives the sample dictionary, assigns to its entries    *)
(* and returns it.  Arithmetic is exact; a value is data[i] / den.         *)
(***************************************************************************)
RECURSIVE SeqMin(_)
SeqMin(s) ==
    IF Len(s) = 1 THEN s[1]
    ELSE LET m == SeqMin(Tail(s)) IN IF s[1] < m THEN s[1] ELSE m

RECURSIVE SeqMax(_)
SeqMax(s) ==
    IF Len(s) = 1 THEN s[1]
    ELSE LET m == SeqMax(Tail(s)) IN IF s[1] > m THEN s[1] ELSE m

\* s in ascending order
RECURSIVE Sorted(_)
SortInsert(x, s) ==
    LET k == Cardinality({i \in 1..Len(s) : s[i] <= x})
    IN SubSeq(s, 1, k) \o <<x>> \o SubSeq(s, k + 1, Len(s))
Sorted(s) == IF s = <<>> THEN <<>> ELSE SortInsert(Head(s), Sorted(Tail(s)))

Clip(x, lo, hi) == IF x < lo THEN lo ELSE IF x > hi THEN hi ELSE x

\* line 53: the top of the output range
FullScale == 255

\* Scale.__call__ lines 46-58: the new sample['image'].  std > 0 exactly when
\* the pixels are not all equal; then (z - z.min()) / (z.max() - z.min()) * 255
\* is (x - min) / (max - min) * 255, clipped and truncated to uint8.
Scale_image(img) ==
    LET lo == SeqMin(img.data)
        hi == SeqMax(img.data)
    IN IF hi > lo
       THEN [img EXCEPT !.data = [i \in 1..Len(img.data) |->
                Clip(((img.data[i] - lo) * FullScale) \div (hi - lo), 0, FullScale)]]
       ELSE img

\* HUScale.__init__ line 107: min_quantile = 1/20, max_quantile = 19/20
QuantileDen == 20
MinQuantileNum == 1
MaxQuantileNum == 19

\* np.quantile(img, q / 20), times 20: linear interpolation between the two
\* order statistics around position q / 20 * (n - 1)
Quantile20(xs, q) ==
    LET a == Sorted(xs)
        pos == q * (Len(xs) - 1)
        lo == pos \div QuantileDen
        fr == pos % QuantileDen
    IN IF fr = 0 THEN QuantileDen * a[lo + 1]
       ELSE QuantileDen * a[lo + 1] + fr * (a[lo + 2] - a[lo + 1])

\* what astype(np.uint8) makes of NaN is undefined; the values builds produce
NanAsUint8 == {0, 255}

\* HUScale.__call__ lines 112-121: the new sample['image'], given the value v
\* that the cast gives NaN
HUScale_image(img, v) ==
    LET hu_min == Quantile20(img.data, MinQuantileNum)
        hu_max == Quantile20(img.data, MaxQuantileNum)
    IN IF hu_max = hu_min
       THEN [img EXCEPT !.data = [i \in 1..Len(img.data) |-> v]]
       ELSE [img EXCEPT !.data = [i \in 1..Len(img.data) |->
                ((Clip(QuantileDen * img.data[i], hu_min, hu_max) - hu_min) * FullScale)
                    \div (hu_max - hu_min)]]

\* ToTensor.__call__ lines 65-71 for one entry: to_tensor divides a uint8 array
\* by 255; a mask is multiplied by 255 again
ToTensor_value(key, a) ==
    IF a.kind # "ndarray" THEN a
    ELSE IF key = "image" THEN [a EXCEPT !.kind = "tensor", !.den = a.den * FullScale]
    ELSE [a EXCEPT !.kind = "tensor"]

\* OneHot.__call__ lines 83-84 and 92-93: value / value.max()
OneHot_single(a) ==
    LET m == SeqMax(a.data) IN
    IF m = 0 THEN [a EXCEPT !.nan = TRUE] ELSE [a EXCEPT !.den = m]

\* OneHot.__call__ lines 86-87 and 96-102: n_classes + 1 channels, channel c
\* holding 1 where the label is c
OneHot_multi(a, n) ==
    LET p == Len(a.data) IN
    [a EXCEPT !.channels = n + 1,
              !.den = 1,
              !.data = [j \in 1..((n + 1) * p) |->
                          IF a.data[((j - 1) % p) + 1] \div a.den = (j - 1) \div p
                          THEN 1 ELSE 0]]

OneHot_value(key, a, n) ==
    IF key = "image" THEN a
    ELSE IF n = 1 THEN OneHot_single(a) ELSE OneHot_multi(a, n)

PixelValues == {0, 100, 255}
MaskValues == {0, 1, 2}

InitXform ==
    /\ IdleZip
    /\ IdleECE
    /\ IdleJson
    /\ IdleMain
    /\ \E img \in [1..ImagePixels -> PixelValues], msk \in [1..ImagePixels -> MaskValues] :
          sample = [image |-> Array("ndarray", 1, img), mask |-> Array("ndarray", 1, msk)]
    /\ loaded_sample = sample
    /\ applied = <<>>
    /\ divided_by_zero = FALSE

Was(t) == \E i \in 1..Len(applied) : applied[i] = t

\* the chains tried apply the intensity transforms to the numpy image the
\* loader produced, then ToTensor, then OneHot, as main() composes them
\* (lines 62-77); each at most once
Scale ==
    /\ applied = <<>>
    /\ sample' = [sample EXCEPT !.image = Scale_image(sample.image)]
    /\ applied' = Append(applied, "Scale")
    /\ UNCHANGED <<loaded_sample, divided_by_zero>>
    /\ UNCHANGED <<varsECE, varsJson, varsMain, varsZip>>

HUScale ==
    /\ applied = <<>>
    /\ \E v \in NanAsUint8 :
          sample' = [sample EXCEPT !.image = HUScale_image(sample.image, v)]
    \* line 118 divides by hu_max - hu_min without a test
    /\ divided_by_zero' = (Quantile20(sample.image.data, MaxQuantileNum)
                             = Quantile20(sample.image.data, MinQuantileNum))
    /\ applied' = Append(applied, "HUScale")
    /\ UNCHANGED loaded_sample
    /\ UNCHANGED <<varsECE, varsJson, varsMain, varsZip>>

ToTensor ==
    /\ ~Was("ToTensor") /\ ~Was("OneHot1") /\ ~Was("OneHot2")
    /\ sample' = [k \in DOMAIN sample |-> ToTensor_value(k, sample[k])]
    /\ applied' = Append(applied, "ToTensor")
    /\ UNCHANGED <<loaded_sample, divided_by_zero>>
    /\ UNCHANGED <<varsECE, varsJson, varsMain, varsZip>>

\* OneHot(n_classes), with the two values main() gives n_classes (lines 56-59)
OneHot ==
    /\ ~Was("OneHot1") /\ ~Was("OneHot2")
    /\ \E n \in {1, 2} :
          /\ sample' = [k \in DOMAIN sample |-> OneHot_value(k, sample[k], n)]
          /\ applied' = Append(applied, IF n = 1 THEN "OneHot1" ELSE "OneHot2")
          /\ divided_by_zero' = (divided_by_zero \/ (n = 1 /\ SeqMax(sample.mask.data) = 0))
    /\ UNCHANGED loaded_sample
    /\ UNCHANGED <<varsECE, varsJson, varsMain, varsZip>>

NextXform == Scale \/ HUScale \/ ToTensor \/ OneHot

SpecXform == InitXform /\ [][NextXform]_vars

(***************************************************************************)
(* extract_path and unzip_segs (src/utils/data_transforms.py).              *)
(* The directory tempfile.gettempdir() is the set fs of its entries, each  *)
(* a path relative to it and whether it is a directory.  The ZIP file is   *)
(* the tree extractall writes, or a file zipfile cannot open.              *)
(***************************************************************************)
MaxCalls == 3       \* calls of extract_path / unzip_segs in one behaviour

Stem == "data"                      \* zip_path.stem, for zip_path = .../data.zip
DestNames == {"data", "masks"}     \* the dest_dir_name arguments of unzip_segs
TempName == "tmp_mkdtemp"           \* the fresh name TemporaryDirectory picks

Entry(p, d) == [path |-> p, dir |-> d]

\* the trees a ZIP file may hold: every member comes with its parents
MemberUniverse ==
    { Entry(<<"data">>, TRUE), Entry(<<"data", "masks">>, TRUE),
      Entry(<<"data", "x.png">>, FALSE),
      Entry(<<"masks">>, TRUE), Entry(<<"masks", "y.png">>, FALSE),
      Entry(<<"readme">>, FALSE) }

Under(p, q) == Len(p) <= Len(q) /\ SubSeq(q, 1, Len(p)) = p

Archives ==
    { [ok |-> TRUE, members |-> A] : A \in
        { B \in SUBSET MemberUniverse :
            \A m \in B : Len(m.path) > 1 =>
                Entry(SubSeq(m.path, 1, Len(m.path) - 1), TRUE) \in B } }
    \cup { [ok |-> FALSE, members |-> {}] }

exists(f, p) == \E e \in f : e.path = p
is_dir(f, p) == Entry(p, TRUE) \in f

\* the names of the entries directly inside directory p
iterdir(f, p) == { e.path[Len(e.path)] : e \in { x \in f : Len(x.path) = Len(p) + 1 /\ Under(p, x.path) } }

\* the orders in which iterdir may yield the directories it finds
Orders == { o \in [1..Cardinality(DestNames) -> DestNames] : \A i, j \in DOMAIN o : o[i] = o[j] => i = j }

FsOk(f) == [fs |-> f, error |-> NoError]
FsRaise(f, e) == [fs |-> f, error |-> e]

\* src and everything below it, now at dst
Rebase(f, src, dst) ==
    { IF Under(src, e.path)
        THEN Entry(dst \o SubSeq(e.path, Len(src) + 1, Len(e.path)), e.dir)
        ELSE e : e \in f }

\* os.rename of a directory: onto nothing, or onto an empty directory
os_rename(f, src, dst) ==
    IF ~exists(f, dst) THEN FsOk(Rebase(f, src, dst))
    ELSE IF is_dir(f, dst) /\ iterdir(f, dst) = {}
        THEN FsOk(Rebase(f \ {Entry(dst, TRUE)}, src, dst))
    ELSE FsRaise(f, "OSError")

rmtree(f, p) == { e \in f : ~Under(p, e.path) }

\* tempfile.TemporaryDirectory(dir=base_dir): __enter__ and __exit__
mkdtemp(f) == f \cup {Entry(<<TempName>>, TRUE)}
cleanup(f) == IF exists(f, <<TempName>>) THEN rmtree(f, <<TempName>>) ELSE f

\* zip_ref.extractall(dest_dir)
extractall(f, dest_dir, members) ==
    f \cup { Entry(dest_dir \o m.path, m.dir) : m \in members }

\* shutil.move(src, dst) of a directory
shutil_move(f, src, dst) ==
    IF is_dir(f, dst)
        THEN LET real_dst == dst \o <<src[Len(src)]>>
             IN IF exists(f, real_dst) THEN FsRaise(f, "shutil.Error")
                ELSE os_rename(f, src, real_dst)
        ELSE os_rename(f, src, dst)

\* dest_dir.with_name(dest_dir.name + "_tmp")
with_name_tmp(name) == name \o "_tmp"

\* the loop over temp_folder.iterdir(), the directories taken in the given order
RECURSIVE MoveDirs(_, _, _, _)
MoveDirs(f, items, temp_folder, dest_dir) ==
    IF items = <<>> THEN FsOk(f)
    ELSE LET r == shutil_move(f, temp_folder \o <<Head(items)>>, dest_dir)
         IN IF r.error # NoError THEN r
            ELSE MoveDirs(r.fs, Tail(items), temp_folder, dest_dir)

\* the body of "if subfolder.is_dir():"
Flatten(f, name, order) ==
    LET dest_dir == <<name>>
        temp_folder == <<with_name_tmp(name)>>
        r1 == os_rename(f, dest_dir, temp_folder)
    IN IF r1.error # NoError THEN r1
       ELSE LET items == SelectSeq(order, LAMBDA n : is_dir(r1.fs, temp_folder \o <<n>>))
                r2 == MoveDirs(r1.fs, items, temp_folder, dest_dir)
            IN IF r2.error # NoError THEN r2
               ELSE FsOk(rmtree(r2.fs, temp_folder))

\* the block under "with tempfile.TemporaryDirectory(dir=base_dir) as temp_dir:"
\* for the destination <<name>>, which does not exist
ExtractInto(f, name, arch, order) ==
    LET dest_dir == <<name>>
        r1 == os_rename(mkdtemp(f), <<TempName>>, dest_dir)
    IN IF r1.error # NoError THEN r1 @@ [extracted |-> FALSE]
       ELSE IF ~arch.ok THEN FsRaise(r1.fs, "BadZipFile") @@ [extracted |-> FALSE]
       ELSE LET f2 == extractall(r1.fs, dest_dir, arch.members)
                subfolder == dest_dir \o <<name>>
            IN IF is_dir(f2, subfolder)
                 THEN Flatten(f2, name, order) @@ [extracted |-> TRUE]
                 ELSE FsOk(f2) @@ [extracted |-> TRUE]

\* extract_path(zip_path): [fs, error, extracted]; it returns dest_dir unless
\* error names an exception
extract_path(f, arch, order) ==
    LET dest_folder_name == Stem
        dest_dir == <<dest_folder_name>>
    IN IF ~exists(f, dest_dir)
         THEN LET r == ExtractInto(f, dest_folder_name, arch, order)
              IN [r EXCEPT !.fs = cleanup(r.fs)]
         ELSE FsOk(f) @@ [extracted |-> FALSE]

\* unzip_segs(zip_path, dest_dir_name); dest_dir.parent is base_dir, which exists
unzip_segs(f, arch, dest_dir_name, order) ==
    LET dest_dir == <<dest_dir_name>>
    IN IF ~exists(f, dest_dir)
         THEN LET r == ExtractInto(f, dest_dir_name, arch, order)
              IN [r EXCEPT !.fs = cleanup(r.fs)]
         ELSE FsOk(f) @@ [extracted |-> FALSE]

\* what a caller sees of a call for destination name that ended as r
Outcome(name, r) ==
    [dest |-> name,
     outcome |-> IF r.error = NoError THEN "returned" ELSE r.error,
     found |-> exists(fs, <<name>>),
     extracted |-> r.extracted,
     changed |-> r.fs # fs]

InitZip ==
    /\ IdleECE
    /\ IdleJson
    /\ IdleMain
    /\ IdleXform
    /\ archive \in Archives
    /\ fs = {}
    /\ ret = NoCall
    /\ n_calls = 0

ExtractPath ==
    /\ n_calls < MaxCalls
    /\ \E order \in Orders :
          LET r == extract_path(fs, archive, order)
          IN /\ fs' = r.fs
             /\ ret' = Outcome(Stem, r)
    /\ n_calls' = n_calls + 1
    /\ UNCHANGED archive
    /\ UNCHANGED <<varsECE, varsJson, varsMain, varsXform>>

UnzipSegs ==
    /\ n_calls < MaxCalls
    /\ \E dest_dir_name \in DestNames, order \in Orders :
          LET r == unzip_segs(fs, archive, dest_dir_name, order)
          IN /\ fs' = r.fs
             /\ ret' = Outcome(dest_dir_name, r)
    /\ n_calls' = n_calls + 1
    /\ UNCHANGED archive
    /\ UNCHANGED <<varsECE, varsJson, varsMain, varsXform>>

NextZip == ExtractPath \/ UnzipSegs

SpecZip == InitZip /\ [][NextZip]_vars

(***************************************************************************)
(* Claims about compute_ece_for_segmentation, checked under SpecECE.       *)
(***************************************************************************)
CallProbs == Reordered(prob_maps, perm)
CallLabels == Reordered(true_labels, perm)

BinsHolding(k) == {b \in 1..n_bins : in_bin(k, b, n_bins)}

\* the bucket of a confidence, computed on its own: the least b with k/Grid <= b/n
BucketOf(k) == (k * n_bins + Grid - 1) \div Grid

Members(b) == {i \in 1..Len(CallProbs) : BucketOf(CallProbs[i]) = b}

RECURSIVE SumOver(_, _)
SumOver(S, f) ==
    IF S = {} THEN 0
    ELSE LET x == CHOOSE y \in S : TRUE IN f[x] + SumOver(S \ {x}, f)

\* |mean confidence - mean agreement| * occupancy of bucket b, times Grid * N
BucketGap(b) ==
    Abs(SumOver(Members(b), CallProbs)
        - Grid * Cardinality({i \in Members(b) : CallLabels[i] = Grid}))

StandardECE == SumOver(1..n_bins, [b \in 1..n_bins |-> BucketGap(b)])

\* C2 as stated: every confidence in [0,1] lies in exactly one of the n_bins
\* buckets (lower, upper], and the result is the occupancy-weighted sum of
\* |mean confidence - mean agreement| over the non-empty buckets.
C2_EveryConfidenceInOneBin ==
    ece # <<>> =>
        /\ \A i \in 1..Len(CallProbs) : Cardinality(BinsHolding(CallProbs[i])) = 1
        /\ ece[1] = StandardECE

\* C2 amended: every confidence in (0,1] lies in exactly one bucket (lower, upper],
\* a confidence of exactly 0 lies in none (it still counts in the occupancy
\* denominator); the result is the occupancy-weighted sum of
\* |mean confidence - mean agreement| over the non-empty buckets, and an empty
\* bucket contributes zero.
C2_PositiveConfidenceInOneBin ==
    ece # <<>> =>
        /\ \A i \in 1..Len(CallProbs) :
              /\ CallProbs[i] > 0 => BinsHolding(CallProbs[i]) = {BucketOf(CallProbs[i])}
              /\ CallProbs[i] = 0 => BinsHolding(CallProbs[i]) = {}
        /\ ece[1] = StandardECE
        /\ \A b \in 1..n_bins :
              Members(b) = {} => BinTerm(CallProbs, CallLabels, b, n_bins) = 0

\* a call with a zero confidence, a confidence on an interior bin boundary,
\* an empty bucket and a non-zero result
C2_Witness ==
    /\ ece # <<>>
    /\ ece[1] > 0
    /\ n_bins > 1
    /\ \E i \in 1..Len(CallProbs) : CallProbs[i] = 0
    /\ \E i \in 1..Len(CallProbs) : \E b \in 1..(n_bins - 1) : CallProbs[i] * n_bins = b * Grid
    /\ \E b \in 1..n_bins : Members(b) = {}

\* C3 as stated: when the predicted value equals the real value for every
\* element, the ECE is exactly 0, for any n_bins >= 1.
C3_EqualInputsGiveZero ==
    (ece # <<>> /\ CallProbs = CallLabels) => ece[1] = 0

IsClassLabel(k) == k \in {0, Grid}

\* C3 amended: when the real values are class labels in {0, 1} and the predicted
\* value equals the real value for every element, the ECE is exactly 0, for any
\* n_bins >= 1.
C3_EqualBinaryInputsGiveZero ==
    (/\ ece # <<>>
     /\ CallProbs = CallLabels
     /\ \A i \in 1..Len(CallLabels) : IsClassLabel(CallLabels[i])) => ece[1] = 0

\* a perfectly calibrated binary input holding both classes has been scored
C3_Witness ==
    /\ ece # <<>>
    /\ CallProbs = CallLabels
    /\ \E i \in 1..Len(CallLabels) : CallLabels[i] = 0
    /\ \E i \in 1..Len(CallLabels) : CallLabels[i] = Grid
    /\ ece[1] = 0

\* C4: the ECE of the pairs in any order equals the ECE of the pairs in the
\* order first given, for every input and every n_bins.
C4_PermutationInvariant ==
    ece # <<>> => ece[1] = compute_ece_for_segmentation(prob_maps, true_labels, n_bins)

\* a reordered input with two different pairs has been scored, with a non-zero result
C4_Witness ==
    /\ ece # <<>>
    /\ ece[1] > 0
    /\ \E i \in 1..Len(perm) : perm[i] # i
    /\ CallProbs # prob_maps

(***************************************************************************)
(* Claims about to_json / read_json, checked under SpecJson.               *)
(***************************************************************************)
\* the structure with every array replaced by the list of its numbers
RECURSIVE Plain(_)
Plain(v) ==
    CASE v[1] = "ndarray" -> <<"list", [i \in 1..Len(v[2]) |-> <<"num", v[2][i]>>]>>
      [] v[1] = "list" -> <<"list", [i \in 1..Len(v[2]) |-> Plain(v[2][i])]>>
      [] v[1] = "dict" -> <<"dict", [i \in 1..Len(v[2]) |-> <<v[2][i][1], Plain(v[2][i][2])>>]>>
      [] OTHER -> v

RECURSIVE Holds(_, _)
Holds(v, x) ==
    \/ v = x
    \/ v[1] = "list" /\ \E i \in 1..Len(v[2]) : Holds(v[2][i], x)
    \/ v[1] = "dict" /\ \E i \in 1..Len(v[2]) : Holds(v[2][i][2], x)

\* C7: what read_json returns for a file to_json wrote is the same nested
\* structure in the same order, every numpy array replaced by the plain list of
\* its numbers and every other value unchanged.
C7_RoundTrip ==
    loaded # <<>> => loaded[1] = Plain(data)

\* two records, holding an array, a number and a NaN, were written and read back
C7_Witness ==
    /\ loaded # <<>>
    /\ Len(data[2]) >= 2
    /\ Holds(data, <<"ndarray", <<1, 0>> >>)
    /\ Holds(data, <<"nan">>)
    /\ Holds(data, <<"num", 1>>)
    /\ Holds(loaded[1], <<"list", << <<"num", 1>>, <<"num", 0>> >> >>)

(***************************************************************************)
(* Claims about main(), checked under SpecMain.                            *)
(***************************************************************************)
NothingEvaluated == records = <<>> /\ preds_test = <<>> /\ preds_cal = <<>>

\* C1: a run whose dataset name or classifier name is not recognized loads no
\* dataset, constructs no RCA and evaluates nothing: it is rejected at startup.
C1_UnrecognizedRejectedAtStartup ==
    (pc # "idle" /\ (argv.dataset \notin datasets \/ argv.classifier \notin Classifiers)) =>
        /\ constructed = <<>>
        /\ rca_clf = <<>>
        /\ NothingEvaluated

\* whether a file's text is an object annotated with failure counts, rather
\* than a bare (or cut off) list of records
Annotated(f) ==
    /\ f.exists
    /\ LET r == json_load(f.text) IN
       /\ r.ok
       /\ r.val[1] = "dict"
       /\ \E i \in 1..Len(r.val[2]) : r.val[2][i][1] = "failures"

\* C5: a run that fails after the test split was evaluated leaves an output
\* file annotated with failure counts, and none of its output files is an
\* unannotated or cut off list of records.
C5_FailedRunAnnotated ==
    (pc = "failed" /\ preds_test # <<>>) =>
        /\ \E f \in DOMAIN files : Annotated(files[f])
        /\ \A f \in DOMAIN files : files[f].exists => Annotated(files[f])

NameOf(rec) == rec[2][1][2][2]
HasError(rec) == \E i \in 1..Len(rec[2]) : rec[2][i][1] = "error"

OneRecordPerSample(preds, split) ==
    /\ Len(preds[2]) = Len(split)
    /\ \A i \in 1..Len(split) : NameOf(preds[2][i]) = split[i]

C8_EmbModelExplicit ==
    rca_args # <<>> =>
        LET e == rca_args[1].emb_model IN
        /\ (e = PyNone) <=> (argv.emb_model = "None")
        /\ argv.emb_model = Absent =>
              e = (IF argv.dataset = "jsrt" THEN "microsoft/rad-dino" ELSE "facebook/dinov2-base")
        /\ argv.emb_model \notin {Absent, "None"} => e = argv.emb_model

\* RCA was constructed for jsrt with --emb_model omitted
C8_Witness ==
    /\ rca_clf # <<>>
    /\ argv.dataset = "jsrt"
    /\ argv.emb_model = Absent
    /\ rca_clf[1].args.emb_model = "microsoft/rad-dino"

(***************************************************************************)
(* Claims about the sample transforms, checked under SpecXform.            *)
(***************************************************************************)
\* C9: every transform leaves the sample it was called with (its image and its
\* masks) as the loader produced it.
C9_TransformsLeaveSampleUnchanged ==
    applied # <<>> => sample = loaded_sample

InUnitRange(a) == ~a.nan /\ \A i \in 1..Len(a.data) : 0 <= a.data[i] /\ a.data[i] <= a.den

\* C10: no transform divides by zero, and OneHot with n_classes = 1 leaves a
\* mask whose values lie in [0, 1].
C10_NoDivisionByZero ==
    /\ ~divided_by_zero
    /\ Was("OneHot1") => InUnitRange(sample.mask)

(***************************************************************************)
(* Claims about extract_path and unzip_segs, checked under SpecZip.        *)
(***************************************************************************)
\* C11: extract_path and unzip_segs are idempotent over any sequence of calls
\* for the same archive: a call that finds the destination existing returns
\* without extracting or changing anything, and after every call that returns
\* normally the destination directory exists and no "<name>_tmp" sibling
\* remains.
C11_Idempotent ==
    ret.outcome = "returned" =>
        /\ is_dir(fs, <<ret.dest>>)
        /\ ~exists(fs, <<with_name_tmp(ret.dest)>>)
        /\ ret.found => (~ret.extracted /\ ~ret.changed)
        /\ ~ret.found => ret.extracted

====
